---------------------------- MODULE Spec2Model ----------------------------
(***************************************************************************)
(* A model of analyze.py, the distant-reading pipeline: the Gutenberg      *)
(* normalizer, the frequency, sentiment and style analyzers, and the       *)
(* orchestration of main around the corpus-wide topic model.               *)
(*                                                                         *)
(* Texts are finite sequences of lexical units.  A unit is one character   *)
(* ("\n", " ", U+FEFF), one word, or one maximal piece of a marker phrase  *)
(* in any case of letters, so that every regular expression of             *)
(* clean_gutenberg_text is a sequence of units and re.search is a leftmost *)
(* sub-sequence search.                                                    *)
(*                                                                         *)
(* Numbers that the program holds as floats rounded to 4 decimals are held *)
(* here as integers scaled by 10000 (0.05 is 500, 1.0 is 10000); those     *)
(* rounded to 2 decimals are scaled by 100.                                *)
(*                                                                         *)
(* The outputs of the NLTK tokenizers, of VADER and of the LDA fit are     *)
(* inputs of the model: token sequences, per-sentence token counts,        *)
(* per-sentence score records and an opaque per-document mixture.          *)
(***************************************************************************)
EXTENDS Integers, Sequences, FiniteSets, TLC

VARIABLES
    pc,               \* position of the run under study
    raw,              \* clean_gutenberg_text: the raw text read from the file
    cleaned,          \* clean_gutenberg_text(raw)
    recleaned,        \* clean_gutenberg_text(cleaned)
    tokens,           \* the token sequence handed to an analyzer
    top_n,            \* calculate_word_frequencies: top_n
    word_freq,        \* calculate_word_frequencies: the returned list
    sentence_scores,  \* calculate_sentiment: the per-sentence VADER scores
    sentiment,        \* calculate_sentiment: the returned record
    sentence_lengths, \* calculate_style_metrics: len(word_tokenize(s)) per sentence
    style_metrics,    \* calculate_style_metrics: the returned record
    txt_files,        \* main: the sorted list of discovered documents
    idx,              \* main: position of the for loops
    results,          \* main: the per-document records
    corpus_texts,     \* main: the clean texts collected for the topic model
    topic_results,    \* main: what perform_topic_modeling returned
    tm_calls,         \* main: number of invocations of perform_topic_modeling
    output_file       \* main: the objects dumped to analysis_results.json

vars == <<pc, raw, cleaned, recleaned, tokens, top_n, word_freq,
          sentence_scores, sentiment, sentence_lengths, style_metrics,
          txt_files, idx, results, corpus_texts, topic_results, tm_calls,
          output_file>>

cleanVars == <<raw, cleaned, recleaned>>
freqVars == <<top_n, word_freq>>
sentimentVars == <<sentence_scores, sentiment>>
styleVars == <<sentence_lengths, style_metrics>>
mainVars == <<txt_files, idx, results, corpus_texts, topic_results, tm_calls,
              output_file>>

\* The value of a variable that holds nothing yet.
None == "None"

-----------------------------------------------------------------------------
(* Bounds of the model. *)

\* Number of fragments a raw text is put together from.
MaxFrags == 3
\* Number of tokens and of sentences of a text put through analyze_text.
MaxAnalyzed == 2

-----------------------------------------------------------------------------
(* Generic helpers on sequences. *)

RECURSIVE Concat(_)
Concat(ss) ==
    IF ss = <<>> THEN <<>> ELSE Head(ss) \o Concat(Tail(ss))

SeqsUpTo(S, n) == UNION {[1..k -> S] : k \in 0..n}

\* Whether pattern p occurs in t at position i.
MatchAt(p, t, i) ==
    /\ i >= 1
    /\ i + Len(p) - 1 <= Len(t)
    /\ \A k \in 1..Len(p) : t[i + k - 1] = p[k]

-----------------------------------------------------------------------------
(* clean_gutenberg_text *)

NL == "\n"
SP == " "
BOM == "U+FEFF"
STARS == "***"
START == "START OF THE PROJECT GUTENBERG EBOOK"
END == "END OF THE PROJECT GUTENBERG"
EBOOK == "EBOOK"
WORD == "x"

\* r'\*\*\* START OF (THE|THIS) PROJECT GUTENBERG EBOOK', r'\*\*\*START OF ...'
start_markers == << <<STARS, SP, START>>, <<STARS, START>> >>

\* r'\*\*\* END OF (THE|THIS) PROJECT GUTENBERG EBOOK', r'\*\*\*END OF ...',
\* r'End of (the )?Project Gutenberg'
end_markers ==
    << <<STARS, SP, END, SP, EBOOK>>, <<STARS, END, SP, EBOOK>>, <<END>> >>

\* text.replace('\ufeff', ''): every U+FEFF goes, wherever it stands.
RemoveBOM(t) == SelectSeq(t, LAMBDA c : c # BOM)

\* re.search(pattern, text, re.IGNORECASE): the start of the leftmost match,
\* 0 for no match.
Search(p, t) ==
    IF \E i \in 1..Len(t) : MatchAt(p, t, i)
    THEN CHOOSE i \in 1..Len(t) :
             /\ MatchAt(p, t, i)
             /\ \A j \in 1..(i - 1) : ~MatchAt(p, t, j)
    ELSE 0

\* for pattern in markers: ... if match: ...; break
\* The index of the first pattern of the list that matches, 0 for none.
FirstMatching(markers, t) ==
    IF \E k \in 1..Len(markers) : Search(markers[k], t) # 0
    THEN CHOOSE k \in 1..Len(markers) :
             /\ Search(markers[k], t) # 0
             /\ \A j \in 1..(k - 1) : Search(markers[j], t) = 0
    ELSE 0

\* text = text[:match.end()] would keep the footer marker.
RemoveFooterKeepingMarker(t) ==
    LET k == FirstMatching(end_markers, t)
    IN  IF k = 0 THEN t
        ELSE SubSeq(t, 1, Search(end_markers[k], t) + Len(end_markers[k]) - 1)

\* text = text[match.end():]
RemoveHeader(t) ==
    LET k == FirstMatching(start_markers, t)
    IN  IF k = 0 THEN t
        ELSE SubSeq(t, Search(start_markers[k], t) + Len(start_markers[k]), Len(t))

\* text = text[:match.start()]
RemoveFooter(t) ==
    LET k == FirstMatching(end_markers, t)
    IN  IF k = 0 THEN t
        ELSE SubSeq(t, 1, Search(end_markers[k], t) - 1)

\* Length of the run of newlines t starts with.
RECURSIVE NewlineRun(_)
NewlineRun(t) ==
    IF t # <<>> /\ Head(t) = NL THEN 1 + NewlineRun(Tail(t)) ELSE 0

\* re.sub(r'\n{3,}', '\n\n', text)
RECURSIVE CollapseNewlines(_)
CollapseNewlines(t) ==
    IF t = <<>> THEN <<>>
    ELSE IF Head(t) = NL
         THEN LET r == NewlineRun(t)
              IN  (IF r >= 3 THEN <<NL, NL>> ELSE SubSeq(t, 1, r))
                      \o CollapseNewlines(SubSeq(t, r + 1, Len(t)))
         ELSE <<Head(t)>> \o CollapseNewlines(Tail(t))

\* What str.strip() removes.  U+FEFF is not whitespace.
Whitespace == {SP, NL}

RECURSIVE LStrip(_)
LStrip(t) ==
    IF t # <<>> /\ Head(t) \in Whitespace THEN LStrip(Tail(t)) ELSE t

RECURSIVE RStrip(_)
RStrip(t) ==
    IF t # <<>> /\ t[Len(t)] \in Whitespace
    THEN RStrip(SubSeq(t, 1, Len(t) - 1))
    ELSE t

Strip(t) == RStrip(LStrip(t))

clean_gutenberg_text(text) ==
    Strip(CollapseNewlines(RemoveFooter(RemoveHeader(RemoveBOM(text)))))

\* The pattern the header (footer) search of clean_gutenberg_text matched on
\* raw text t, <<>> when none matched.
MatchedStart(t) ==
    LET k == FirstMatching(start_markers, RemoveBOM(t))
    IN  IF k = 0 THEN <<>> ELSE start_markers[k]

MatchedEnd(t) ==
    LET k == FirstMatching(end_markers, RemoveHeader(RemoveBOM(t)))
    IN  IF k = 0 THEN <<>> ELSE end_markers[k]

\* The raw text of the scenario:
\* "*** START OF THE PROJECT GUTENBERG EBOOK TEST ***\nHello world. This is
\* great!\n*** END OF THE PROJECT GUTENBERG EBOOK TEST ***"
ScenarioBody ==
    <<"Hello", SP, "world.", SP, "This", SP, "is", SP, "great!">>

ScenarioRaw ==
    <<STARS, SP, START, SP, "TEST", SP, STARS, NL>>
        \o ScenarioBody
        \o <<NL, STARS, SP, END, SP, EBOOK, SP, "TEST", SP, STARS>>

\* The pieces raw texts are put together from: every unit alone, every
\* marker phrase, a run of blank lines, and a marker phrase with a U+FEFF
\* inside it.
Fragments ==
    {<<c>> : c \in {NL, SP, BOM, STARS, START, END, EBOOK, WORD}}
        \cup {start_markers[k] : k \in 1..Len(start_markers)}
        \cup {end_markers[k] : k \in 1..Len(end_markers)}
        \cup {<<NL, NL, NL>>, <<STARS, BOM, START>>}

RawTexts ==
    {Concat(fs) : fs \in SeqsUpTo(Fragments, MaxFrags)} \cup {ScenarioRaw}

IdleClean == raw = <<>> /\ cleaned = None /\ recleaned = None

InitClean ==
    /\ pc = "read"
    /\ raw \in RawTexts
    /\ cleaned = None
    /\ recleaned = None

\* clean_text = clean_gutenberg_text(raw_text)
Clean ==
    /\ pc = "read"
    /\ cleaned' = clean_gutenberg_text(raw)
    /\ pc' = "cleaned"
    /\ UNCHANGED <<raw, recleaned>>

\* a second application, to the text the first one returned
CleanAgain ==
    /\ pc = "cleaned"
    /\ recleaned' = clean_gutenberg_text(cleaned)
    /\ pc' = "recleaned"
    /\ UNCHANGED <<raw, cleaned>>

-----------------------------------------------------------------------------
(* calculate_word_frequencies *)

\* Longest token sequence handed to calculate_word_frequencies.
MaxTokens == 4
\* Largest top_n.
MaxTopN == 3
\* def calculate_word_frequencies(tokens, top_n=50)
DefaultTopN == 50

\* Tokens of the frequency analyzer: the first two are NLTK English
\* stopwords, "ox" is short and no stopword.
FreqWords == {"the", "it", "ox", "cat", "sat", "dog"}

\* set(stopwords.words('english')), as far as FreqWords goes
stop_words == {"the", "it"}

\* Number of occurrences of w in the sequence ts.
Occurrences(w, ts) == Cardinality({i \in 1..Len(ts) : ts[i] = w})

\* [t for t in tokens if t not in stop_words and len(t) > 2]
filtered_tokens(ts) ==
    SelectSeq(ts, LAMBDA t : t \notin stop_words /\ Len(t) > 2)

\* The keys of Counter(ts) in insertion order: each distinct element of ts,
\* in the order of its first occurrence.
RECURSIVE CounterKeys(_)
CounterKeys(ts) ==
    IF ts = <<>> THEN <<>>
    ELSE LET init == SubSeq(ts, 1, Len(ts) - 1)
             last == ts[Len(ts)]
         IN  IF \E i \in 1..Len(init) : init[i] = last
             THEN CounterKeys(init)
             ELSE Append(CounterKeys(init), last)

\* Counter(ts).items(): (key, count) in insertion order.
CounterItems(ts) ==
    LET keys == CounterKeys(ts)
    IN  [i \in 1..Len(keys) |-> <<keys[i], Occurrences(keys[i], ts)>>]

\* A sort that puts an item before the earlier items of the same count.
InsertBeforeEqual(sorted, item) ==
    LET before == {i \in 1..Len(sorted) : sorted[i][2] > item[2]}
        n == Cardinality(before)
    IN  SubSeq(sorted, 1, n) \o <<item>> \o SubSeq(sorted, n + 1, Len(sorted))

\* One step of sorted(items, key=itemgetter(1), reverse=True), which is
\* stable: the item goes behind every item whose count is not smaller.
InsertByCount(sorted, item) ==
    LET before == {i \in 1..Len(sorted) : sorted[i][2] >= item[2]}
        n == Cardinality(before)
    IN  SubSeq(sorted, 1, n) \o <<item>> \o SubSeq(sorted, n + 1, Len(sorted))

RECURSIVE SortedByCount(_)
SortedByCount(items) ==
    IF items = <<>> THEN <<>>
    ELSE InsertByCount(SortedByCount(SubSeq(items, 1, Len(items) - 1)),
                       items[Len(items)])

\* Counter.most_common(n) is heapq.nlargest(n, items, key=itemgetter(1)),
\* which is sorted(items, key=key, reverse=True)[:n], and [] for n <= 0.
most_common(ts, n) ==
    LET all == SortedByCount(CounterItems(ts))
    IN  IF n <= 0 THEN <<>>
        ELSE IF n >= Len(all) THEN all
        ELSE SubSeq(all, 1, n)

calculate_word_frequencies(ts, n) == most_common(filtered_tokens(ts), n)

IdleFreq == top_n = 0 /\ word_freq = None

InitFreq ==
    /\ pc = "tokens"
    /\ tokens \in SeqsUpTo(FreqWords, MaxTokens)
    /\ top_n \in 0..MaxTopN
    /\ word_freq = None

\* word_freq = calculate_word_frequencies(tokens, top_n)
WordFrequencies ==
    /\ pc = "tokens"
    /\ word_freq' = calculate_word_frequencies(tokens, top_n)
    /\ pc' = "counted"
    /\ UNCHANGED <<tokens, top_n>>

-----------------------------------------------------------------------------
(* Rounding *)

\* The integer nearest to a / b (b > 0), a tie going to the even one, as
\* Python's and numpy's round do.
RoundHalfEven(a, b) ==
    LET q == a \div b
        r == a % b
    IN  IF 2 * r < b THEN q
        ELSE IF 2 * r > b THEN q + 1
        ELSE IF q % 2 = 0 THEN q ELSE q + 1

\* round(a / b, 4), scaled by 10000.
Round4(a, b) == (a \div b) * 10000 + RoundHalfEven((a % b) * 10000, b)

\* round(a / b, 2), scaled by 100.
Round2(a, b) == (a \div b) * 100 + RoundHalfEven((a % b) * 100, b)

RECURSIVE SumSeq(_)
SumSeq(s) == IF s = <<>> THEN 0 ELSE Head(s) + SumSeq(Tail(s))

-----------------------------------------------------------------------------
(* calculate_sentiment *)

\* Largest number of sentences scored.
MaxScores == 3

\* compound > 0.05 and compound < -0.05, scaled by 10000
PositiveThreshold == 500
NegativeThreshold == -500

\* polarity_scores of a sentence, scaled by 10000: compound in [-1, 1],
\* pos + neg + neu = 1.  The compounds lie on, next to and far from the
\* two thresholds.
Score(c) ==
    [compound |-> c,
     pos |-> IF c > 0 THEN 3000 ELSE 0,
     neg |-> IF c < 0 THEN 3000 ELSE 0,
     neu |-> IF c = 0 THEN 10000 ELSE 7000]

Scores == {Score(c) : c \in {-6000, -501, -500, 0, 500, 501, 6000}}

\* round(np.mean([s[key] for s in sentence_scores]), 4), scaled by 10000
MeanOf(scores, key) ==
    RoundHalfEven(SumSeq([i \in 1..Len(scores) |-> scores[i][key]]), Len(scores))

\* s['compound'] >= 0.05 would count a sentence on the threshold as positive.
IsPositiveInclusive(s) == s.compound >= PositiveThreshold

\* if s['compound'] > 0.05
IsPositive(s) == s.compound > PositiveThreshold

\* if s['compound'] < -0.05
IsNegative(s) == s.compound < NegativeThreshold

calculate_sentiment(scores) ==
    IF scores = <<>>
    THEN [compound |-> 0, positive |-> 0, negative |-> 0, neutral |-> 0,
          sentence_count |-> 0,
          distribution |-> [positive |-> 0, negative |-> 0, neutral |-> 0]]
    ELSE LET positive_count ==
                 Cardinality({i \in 1..Len(scores) : IsPositive(scores[i])})
             negative_count ==
                 Cardinality({i \in 1..Len(scores) : IsNegative(scores[i])})
             neutral_count == Len(scores) - positive_count - negative_count
         IN  [compound |-> MeanOf(scores, "compound"),
              positive |-> MeanOf(scores, "pos"),
              negative |-> MeanOf(scores, "neg"),
              neutral |-> MeanOf(scores, "neu"),
              sentence_count |-> Len(scores),
              distribution |-> [positive |-> positive_count,
                                negative |-> negative_count,
                                neutral |-> neutral_count]]

IdleSentiment == sentence_scores = <<>> /\ sentiment = None

InitSentiment ==
    /\ pc = "sentences"
    /\ sentence_scores \in SeqsUpTo(Scores, MaxScores)
    /\ sentiment = None

\* sentiment = calculate_sentiment(clean_text)
Sentiment ==
    /\ pc = "sentences"
    /\ sentiment' = calculate_sentiment(sentence_scores)
    /\ pc' = "scored"
    /\ UNCHANGED sentence_scores

-----------------------------------------------------------------------------
(* calculate_style_metrics *)

\* Longest token sequence handed to calculate_style_metrics.
MaxStyleTokens == 4
\* Largest number of sentences.
MaxSentences == 2
\* Largest number of tokens word_tokenize finds in a sentence.
MaxSentLen == 3

\* Tokens of the style analyzer, of lengths 1, 1 and 3.
StyleWords == {"a", "b", "cat"}

\* set(tokens)
unique_tokens(ts) == {ts[i] : i \in 1..Len(ts)}

\* sum(1 for word, count in freq.items() if count == 1)
hapax(ts) == Cardinality({w \in unique_tokens(ts) : Occurrences(w, ts) = 1})

\* freq_of_freq = Counter(freq.values()): for each frequency that occurs, the
\* number of word types of that frequency.
freq_of_freq(ts) ==
    LET counts == {Occurrences(w, ts) : w \in unique_tokens(ts)}
    IN  [count \in counts |->
            Cardinality({w \in unique_tokens(ts) : Occurrences(w, ts) = count})]

RECURSIVE SumOver(_, _)
SumOver(f, S) ==
    IF S = {} THEN 0
    ELSE LET x == CHOOSE y \in S : TRUE
         IN  f[x] + SumOver(f, S \ {x})

m1(ts) == Len(ts)

\* sum(f * count would drop the square.
m2_unsquared(ts) ==
    LET fof == freq_of_freq(ts)
    IN  SumOver([count \in DOMAIN fof |-> fof[count] * count], DOMAIN fof)

\* sum(f * (count ** 2) for count, f in freq_of_freq.items())
m2(ts) ==
    LET fof == freq_of_freq(ts)
    IN  SumOver([count \in DOMAIN fof |-> fof[count] * (count * count)],
                DOMAIN fof)

\* len(unique_tokens) / len(tokens) if tokens else 0, as <<numerator,
\* denominator>>
ttr(ts) ==
    IF ts # <<>> THEN <<Cardinality(unique_tokens(ts)), Len(ts)>> ELSE <<0, 1>>

\* the ratio taken over the tokens instead of the types
hapax_ratio_over_tokens(ts) ==
    IF unique_tokens(ts) # {} THEN <<hapax(ts), Len(ts)>> ELSE <<0, 1>>

\* hapax / len(unique_tokens) if unique_tokens else 0
hapax_ratio(ts) ==
    IF unique_tokens(ts) # {}
    THEN <<hapax(ts), Cardinality(unique_tokens(ts))>>
    ELSE <<0, 1>>

\* 10000 * (m2 - m1) / (m1 ** 2) if m1 > 0 else 0
yules_k(ts) ==
    IF m1(ts) > 0
    THEN <<10000 * (m2(ts) - m1(ts)), m1(ts) * m1(ts)>>
    ELSE <<0, 1>>

\* The elements of s in non-decreasing order.
RECURSIVE Sorted(_)
Sorted(s) ==
    IF s = <<>> THEN <<>>
    ELSE LET rest == Sorted(Tail(s))
             n == Cardinality({i \in 1..Len(rest) : rest[i] <= Head(s)})
         IN  SubSeq(rest, 1, n) \o <<Head(s)>> \o SubSeq(rest, n + 1, Len(rest))

\* round(np.mean(xs), 2), scaled by 100
Mean2(xs) == Round2(SumSeq(xs), Len(xs))

\* round(np.median(xs), 2), scaled by 100: the middle element, or the mean
\* of the two middle ones.
Median2(xs) ==
    LET s == Sorted(xs)
        n == Len(s)
    IN  IF n % 2 = 1 THEN 100 * s[(n + 1) \div 2]
        ELSE 50 * (s[n \div 2] + s[n \div 2 + 1])

\* round(np.std(xs), 2), scaled by 100: the population standard deviation
\* sqrt(a) / n with a = n * sum(x^2) - sum(x)^2, to the nearest hundredth.
Std2(xs) ==
    LET n == Len(xs)
        a == n * SumSeq([i \in 1..n |-> xs[i] * xs[i]]) - SumSeq(xs) * SumSeq(xs)
    IN  CHOOSE k \in 0..(100 * (MaxSentLen + 1)) :
            /\ k = 0 \/ (2 * k - 1) * (2 * k - 1) * n * n <= 40000 * a
            /\ 40000 * a < (2 * k + 1) * (2 * k + 1) * n * n

Min(xs) == CHOOSE x \in {xs[i] : i \in 1..Len(xs)} :
               \A i \in 1..Len(xs) : x <= xs[i]

Max(xs) == CHOOSE x \in {xs[i] : i \in 1..Len(xs)} :
               \A i \in 1..Len(xs) : x >= xs[i]

\* numpy's nan, the mean of nothing: no length or count is negative.
nan == 0 - 1

\* 'mean_length': round(np.mean(sentence_lengths), 2) and the two lines
\* after it with no "if sentence_lengths else 0".
sentence_stats_unguarded(lens) ==
    [count |-> Len(lens),
     mean_length |-> IF lens # <<>> THEN Mean2(lens) ELSE nan,
     median_length |-> IF lens # <<>> THEN Median2(lens) ELSE nan,
     std_length |-> IF lens # <<>> THEN Std2(lens) ELSE nan,
     min_length |-> IF lens # <<>> THEN Min(lens) ELSE 0,
     max_length |-> IF lens # <<>> THEN Max(lens) ELSE 0]

sentence_stats(lens) ==
    [count |-> Len(lens),
     mean_length |-> IF lens # <<>> THEN Mean2(lens) ELSE 0,
     median_length |-> IF lens # <<>> THEN Median2(lens) ELSE 0,
     std_length |-> IF lens # <<>> THEN Std2(lens) ELSE 0,
     min_length |-> IF lens # <<>> THEN Min(lens) ELSE 0,
     max_length |-> IF lens # <<>> THEN Max(lens) ELSE 0]

\* word_lengths = [len(t) for t in tokens]
word_stats(ts) ==
    LET word_lengths == [i \in 1..Len(ts) |-> Len(ts[i])]
    IN  [mean_length |-> IF ts # <<>> THEN Mean2(word_lengths) ELSE 0,
         median_length |-> IF ts # <<>> THEN Median2(word_lengths) ELSE 0]

calculate_style_metrics(lens, ts) ==
    [type_token_ratio |-> Round4(ttr(ts)[1], ttr(ts)[2]),
     vocabulary_size |-> Cardinality(unique_tokens(ts)),
     total_tokens |-> Len(ts),
     hapax_legomena |-> hapax(ts),
     hapax_ratio |-> Round4(hapax_ratio(ts)[1], hapax_ratio(ts)[2]),
     yules_k |-> Round4(yules_k(ts)[1], yules_k(ts)[2]),
     sentence_stats |-> sentence_stats(lens),
     word_stats |-> word_stats(ts)]

IdleStyle == sentence_lengths = <<>> /\ style_metrics = None

\* A text with no sentence is empty and has no token.
InitStyle ==
    /\ pc = "text"
    /\ tokens \in SeqsUpTo(StyleWords, MaxStyleTokens)
    /\ sentence_lengths \in SeqsUpTo(1..MaxSentLen, MaxSentences)
    /\ sentence_lengths = <<>> => tokens = <<>>
    /\ style_metrics = None

\* style_metrics = calculate_style_metrics(clean_text, tokens)
StyleMetrics ==
    /\ pc = "text"
    /\ style_metrics' = calculate_style_metrics(sentence_lengths, tokens)
    /\ pc' = "measured"
    /\ UNCHANGED <<tokens, sentence_lengths>>

-----------------------------------------------------------------------------
(* perform_topic_modeling and main *)

\* Largest number of text files beside the script.
MaxDocs == 3

\* CountVectorizer(max_df=0.95, min_df=2, ...), max_df in percent
max_df == 95
min_df == 2
\* perform_topic_modeling(corpus_texts, n_topics=4)
n_topics == 4

\* The terms a clean text can hold, stopwords apart.
Terms == {"island", "labour"}

\* A text file: its place in the sorted listing, whether reading and
\* analysing it succeed, and the terms of its clean text.
Documents(n) ==
    {fs \in [1..n -> [name : 1..n, readable : BOOLEAN, terms : SUBSET Terms]] :
        \A i \in 1..n : fs[i].name = i}

\* Number of texts of the corpus a term occurs in.
DocFreq(term, corpus) ==
    Cardinality({i \in 1..Len(corpus) : term \in corpus[i]})

\* The vocabulary fit_transform keeps: min_df <= df <= max_df * n_doc.
Features(corpus) ==
    {t \in Terms : /\ DocFreq(t, corpus) >= min_df
                   /\ 100 * DocFreq(t, corpus) <= max_df * Len(corpus)}

\* vectorizer.fit_transform(corpus_texts) raises ValueError: max_df
\* corresponds to fewer documents than min_df, or no terms remain.
VectorizerRejects(corpus) ==
    \/ max_df * Len(corpus) < 100 * min_df
    \/ Features(corpus) = {}

\* The mixture lda.fit_transform gives document i: n_topics weights.
Mixture(i) == [topic \in 1..n_topics |-> <<"weight", i, topic>>]

\* A topic modeler that answers a rejected corpus with an empty model.
perform_topic_modeling_silent(corpus) ==
    <<"return",
      [n_topics |-> n_topics,
       topics |-> Features(corpus),
       document_topic_distributions |-> [i \in 1..Len(corpus) |-> Mixture(i)]]>>

\* The outcome of the call: <<"raise", exception>> or <<"return", value>>.
perform_topic_modeling(corpus) ==
    IF VectorizerRejects(corpus) THEN <<"raise", "ValueError">>
    ELSE <<"return",
           [n_topics |-> n_topics,
            topics |-> Features(corpus),
            document_topic_distributions |->
                [i \in 1..Len(corpus) |-> Mixture(i)]]>>

\* What analyze_text returns for a file it can read.
analyze_text(doc) ==
    [filename |-> doc.name,
     metadata |-> "metadata",
     word_frequencies |-> "word_frequencies",
     sentiment |-> "sentiment",
     style_metrics |-> "style_metrics",
     clean_text |-> doc.terms]

\* del analysis[key]
Del(r, key) == [k \in DOMAIN r \ {key} |-> r[k]]

\* result[key] = value
Put(r, key, value) ==
    [k \in DOMAIN r \cup {key} |-> IF k = key THEN value ELSE r[k]]

\* A loop that hands over to the topic model after its first document.
AfterAnalysisOfFirst(i, files) == "topic"

\* for filepath in txt_files: where the run stands once document i - 1 is
\* done.
AfterAnalysis(i, files) == IF i > Len(files) THEN "topic" ELSE "loop"

IdleMain ==
    /\ txt_files = <<>>
    /\ idx = 0
    /\ results = <<>>
    /\ corpus_texts = <<>>
    /\ topic_results = None
    /\ tm_calls = 0
    /\ output_file = <<>>

InitMain ==
    /\ pc = "start"
    /\ txt_files \in UNION {Documents(n) : n \in 0..MaxDocs}
    /\ idx = 0
    /\ results = <<>>
    /\ corpus_texts = <<>>
    /\ topic_results = None
    /\ tm_calls = 0
    /\ output_file = <<>>

\* if not txt_files: print("No text files found!"); return
NoTextFiles ==
    /\ pc = "start"
    /\ txt_files = <<>>
    /\ pc' = "returned"
    /\ UNCHANGED mainVars

\* results = []; corpus_texts = []
StartLoop ==
    /\ pc = "start"
    /\ txt_files # <<>>
    /\ results' = <<>>
    /\ corpus_texts' = <<>>
    /\ idx' = 1
    /\ pc' = "loop"
    /\ UNCHANGED <<txt_files, topic_results, tm_calls, output_file>>

\* One turn of the first loop of main.
AnalyzeDocument ==
    /\ pc = "loop"
    /\ idx <= Len(txt_files)
    /\ txt_files[idx].readable
    /\ LET analysis == analyze_text(txt_files[idx])
       IN  /\ corpus_texts' = Append(corpus_texts, analysis.clean_text)
           /\ results' = Append(results, Del(analysis, "clean_text"))
    /\ idx' = idx + 1
    /\ pc' = AfterAnalysis(idx + 1, txt_files)
    /\ UNCHANGED <<txt_files, topic_results, tm_calls, output_file>>

\* analyze_text raises: the exception leaves main.
AnalyzeDocumentFails ==
    /\ pc = "loop"
    /\ idx <= Len(txt_files)
    /\ ~txt_files[idx].readable
    /\ pc' = "failed"
    /\ UNCHANGED mainVars

\* topic_results = perform_topic_modeling(corpus_texts, n_topics=4)
TopicModeling ==
    /\ pc = "topic"
    /\ perform_topic_modeling(corpus_texts)[1] = "return"
    /\ tm_calls' = tm_calls + 1
    /\ topic_results' = perform_topic_modeling(corpus_texts)[2]
    /\ idx' = 1
    /\ pc' = "merge"
    /\ UNCHANGED <<txt_files, results, corpus_texts, output_file>>

\* perform_topic_modeling raises: the exception leaves main.
TopicModelingFails ==
    /\ pc = "topic"
    /\ perform_topic_modeling(corpus_texts)[1] = "raise"
    /\ tm_calls' = tm_calls + 1
    /\ pc' = "failed"
    /\ UNCHANGED <<txt_files, idx, results, corpus_texts, topic_results,
                   output_file>>

\* result['topic_distribution'] =
\*     topic_results['document_topic_distributions'][i]
AddTopicDistribution ==
    /\ pc = "merge"
    /\ idx <= Len(results)
    /\ results' =
           [results EXCEPT
               ![idx] = Put(@, "topic_distribution",
                            topic_results.document_topic_distributions[idx])]
    /\ idx' = idx + 1
    /\ pc' = IF idx + 1 > Len(results) THEN "write" ELSE "merge"
    /\ UNCHANGED <<txt_files, corpus_texts, topic_results, tm_calls,
                   output_file>>

\* json.dump(output, f, ...)
WriteOutput ==
    /\ pc = "write"
    /\ output_file' = Append(output_file,
           [corpus_info |-> [text_count |-> Len(results)],
            topic_modeling |-> [n_topics |-> topic_results.n_topics,
                                topics |-> topic_results.topics],
            texts |-> results])
    /\ pc' = "done"
    /\ UNCHANGED <<txt_files, idx, results, corpus_texts, topic_results,
                   tm_calls>>

-----------------------------------------------------------------------------
(* Specifications: one per part of the program. *)

InitC ==
    /\ InitClean
    /\ tokens = <<>> /\ IdleFreq /\ IdleSentiment /\ IdleStyle /\ IdleMain

NextC ==
    \/ Clean /\ UNCHANGED <<tokens, freqVars, sentimentVars, styleVars, mainVars>>
    \/ CleanAgain
           /\ UNCHANGED <<tokens, freqVars, sentimentVars, styleVars, mainVars>>

SpecClean == InitC /\ [][NextC]_vars

InitF ==
    /\ InitFreq
    /\ IdleClean /\ IdleSentiment /\ IdleStyle /\ IdleMain

NextF ==
    WordFrequencies /\ UNCHANGED <<cleanVars, sentimentVars, styleVars, mainVars>>

SpecFreq == InitF /\ [][NextF]_vars

InitS ==
    /\ InitSentiment
    /\ tokens = <<>> /\ IdleClean /\ IdleFreq /\ IdleStyle /\ IdleMain

NextS ==
    Sentiment /\ UNCHANGED <<tokens, cleanVars, freqVars, styleVars, mainVars>>

SpecSentiment == InitS /\ [][NextS]_vars

InitY ==
    /\ InitStyle
    /\ IdleClean /\ IdleFreq /\ IdleSentiment /\ IdleMain

NextY ==
    StyleMetrics /\ UNCHANGED <<cleanVars, freqVars, sentimentVars, mainVars>>

SpecStyle == InitY /\ [][NextY]_vars

\* The three analyzers as analyze_text runs them on one clean text: as many
\* scores as sentences, and no token where there is no sentence.
InitA ==
    /\ pc = "analyze"
    /\ tokens \in SeqsUpTo({"the", "ox", "cat"}, MaxAnalyzed)
    /\ top_n = DefaultTopN
    /\ sentence_scores \in SeqsUpTo({Score(0), Score(6000)}, MaxAnalyzed)
    /\ sentence_lengths \in SeqsUpTo({1, 2}, MaxAnalyzed)
    /\ Len(sentence_scores) = Len(sentence_lengths)
    /\ sentence_lengths = <<>> => tokens = <<>>
    /\ word_freq = None /\ sentiment = None /\ style_metrics = None
    /\ IdleClean /\ IdleMain

\* word_freq = calculate_word_frequencies(tokens)
\* sentiment = calculate_sentiment(clean_text)
\* style_metrics = calculate_style_metrics(clean_text, tokens)
Analyze ==
    /\ pc = "analyze"
    /\ word_freq' = calculate_word_frequencies(tokens, top_n)
    /\ sentiment' = calculate_sentiment(sentence_scores)
    /\ style_metrics' = calculate_style_metrics(sentence_lengths, tokens)
    /\ pc' = "analyzed"
    /\ UNCHANGED <<tokens, top_n, sentence_scores, sentence_lengths>>

NextA == Analyze /\ UNCHANGED <<cleanVars, mainVars>>

SpecAnalyze == InitA /\ [][NextA]_vars

InitM ==
    /\ InitMain
    /\ tokens = <<>> /\ IdleClean /\ IdleFreq /\ IdleSentiment /\ IdleStyle

notMain == <<tokens, cleanVars, freqVars, sentimentVars, styleVars>>

NextM ==
    \/ NoTextFiles /\ UNCHANGED notMain
    \/ StartLoop /\ UNCHANGED notMain
    \/ AnalyzeDocument /\ UNCHANGED notMain
    \/ AnalyzeDocumentFails /\ UNCHANGED notMain
    \/ TopicModeling /\ UNCHANGED notMain
    \/ TopicModelingFails /\ UNCHANGED notMain
    \/ AddTopicDistribution /\ UNCHANGED notMain
    \/ WriteOutput /\ UNCHANGED notMain

SpecMain == InitM /\ [][NextM]_vars

-----------------------------------------------------------------------------
(* Properties of clean_gutenberg_text, under SpecClean. *)

\* Whether the non-empty pattern p occurs in t.
Occurs(p, t) == p # <<>> /\ Search(p, t) # 0

\* Number of places of t where p occurs.
CountOccurrences(p, t) == Cardinality({i \in 1..Len(t) : MatchAt(p, t, i)})

\* Whether s is a contiguous part of t.
IsSubstring(s, t) == \E i \in 1..(Len(t) + 1) : MatchAt(s, t, i)

\* C1: cleaning the scenario's raw text (start-marker line, body,
\* end-marker line) returns exactly the body "Hello world. This is great!".
C1_ScenarioReturnsBody ==
    (pc = "cleaned" /\ raw = ScenarioRaw) => cleaned = ScenarioBody

\* C2, as stated: the clean text holds no occurrence of the start or end
\* marker that was matched, and is a contiguous part of the raw text.
C2_NoMarkerAndSubstringOfRaw ==
    pc = "cleaned" =>
        /\ ~Occurs(MatchedStart(raw), cleaned)
        /\ ~Occurs(MatchedEnd(raw), cleaned)
        /\ IsSubstring(cleaned, raw)

\* C2, amended: the clean text holds no occurrence of the end marker that
\* was matched; it holds none of the start marker that was matched unless
\* that marker occurs more than once in the raw text, U+FEFF disregarded;
\* and it is a contiguous part of the raw text once every U+FEFF is removed
\* from it and every run of three or more newlines is collapsed to two.
C2_NoMarkerAndSubstringOfNormalized ==
    pc = "cleaned" =>
        /\ ~Occurs(MatchedEnd(raw), cleaned)
        /\ CountOccurrences(MatchedStart(raw), RemoveBOM(raw)) <= 1
               => ~Occurs(MatchedStart(raw), cleaned)
        /\ IsSubstring(cleaned, CollapseNewlines(RemoveBOM(raw)))

\* A header and a footer were both matched and cut, and text is left.
C2_Witness ==
    /\ pc = "cleaned"
    /\ MatchedStart(raw) # <<>>
    /\ MatchedEnd(raw) # <<>>
    /\ cleaned # <<>>
    /\ Len(cleaned) < Len(raw) - Len(MatchedStart(raw)) - Len(MatchedEnd(raw))

\* C3: on a text in which no start marker and no end marker occurs, cleaning
\* is idempotent: cleaning the clean text again changes nothing.
C3_IdempotentWithoutMarkers ==
    ( /\ pc = "recleaned"
      /\ FirstMatching(start_markers, raw) = 0
      /\ FirstMatching(end_markers, raw) = 0 )
        => recleaned = cleaned

-----------------------------------------------------------------------------
(* Properties of calculate_word_frequencies, under SpecFreq. *)

Qualifies(w) == w \notin stop_words /\ Len(w) > 2

FirstOccurrence(w, ts) ==
    CHOOSE i \in 1..Len(ts) : ts[i] = w /\ \A j \in 1..(i - 1) : ts[j] # w

\* C4: the list holds at most top_n pairs; no word of it is a stopword or
\* of length <= 2; each count is the word's number of occurrences in the
\* input; counts do not increase along the list; words of equal count stand
\* in the order of their first occurrence; every qualifying word left out
\* has a count no greater than the last one returned; and
\* ['the','the','cat','sat'] gives [('cat',1),('sat',1)].
C4_TopNStableByCount ==
    pc = "counted" =>
        LET r == word_freq
            listed == {r[i][1] : i \in 1..Len(r)}
            omitted == {w \in unique_tokens(tokens) : Qualifies(w)} \ listed
        IN  /\ Len(r) <= top_n
            /\ \A i \in 1..Len(r) :
                   /\ Qualifies(r[i][1])
                   /\ r[i][2] = Occurrences(r[i][1], tokens)
                   /\ r[i][2] >= 1
            /\ \A i, j \in 1..Len(r) :
                   i < j =>
                       /\ r[i][2] >= r[j][2]
                       /\ r[i][2] = r[j][2] =>
                              FirstOccurrence(r[i][1], tokens)
                                  < FirstOccurrence(r[j][1], tokens)
            /\ \A w \in omitted :
                   /\ Len(r) = top_n
                   /\ r # <<>> => Occurrences(w, tokens) <= r[Len(r)][2]
            /\ (tokens = <<"the", "the", "cat", "sat">> /\ top_n >= 2)
                   => r = << <<"cat", 1>>, <<"sat", 1>> >>

\* A list cut at top_n between two words of the same count, the later one
\* left out, with a stopword in the input.
C4_Witness ==
    /\ pc = "counted"
    /\ Len(word_freq) = 2
    /\ word_freq[1][2] = word_freq[2][2]
    /\ \E i \in 1..Len(tokens) : tokens[i] \in stop_words
    /\ \E w \in unique_tokens(tokens) :
           /\ Qualifies(w)
           /\ \A i \in 1..Len(word_freq) : word_freq[i][1] # w
           /\ Occurrences(w, tokens) = word_freq[2][2]

-----------------------------------------------------------------------------
(* Properties of the analyzers on empty input, under SpecAnalyze. *)

\* C5: with no qualifying token calculate_word_frequencies returns the empty
\* list; with no sentence calculate_sentiment returns 0 for compound,
\* positive, negative, neutral and sentence_count and the distribution
\* {0, 0, 0}; with no token and no sentence calculate_style_metrics returns
\* 0 for type_token_ratio, hapax_ratio, yules_k and every sentence-length
\* and word-length statistic.
C5_EmptyInputDefaults ==
    pc = "analyzed" =>
        /\ (\A i \in 1..Len(tokens) : ~Qualifies(tokens[i])) => word_freq = <<>>
        /\ sentence_scores = <<>> =>
               sentiment =
                   [compound |-> 0, positive |-> 0, negative |-> 0,
                    neutral |-> 0, sentence_count |-> 0,
                    distribution |->
                        [positive |-> 0, negative |-> 0, neutral |-> 0]]
        /\ (tokens = <<>> /\ sentence_lengths = <<>>) =>
               /\ style_metrics.type_token_ratio = 0
               /\ style_metrics.hapax_ratio = 0
               /\ style_metrics.yules_k = 0
               /\ style_metrics.sentence_stats =
                      [count |-> 0, mean_length |-> 0, median_length |-> 0,
                       std_length |-> 0, min_length |-> 0, max_length |-> 0]
               /\ style_metrics.word_stats =
                      [mean_length |-> 0, median_length |-> 0]

\* The empty text has been analyzed.
C5_Witness ==
    /\ pc = "analyzed"
    /\ tokens = <<>>
    /\ sentence_scores = <<>>
    /\ sentence_lengths = <<>>
    /\ style_metrics.total_tokens = 0

-----------------------------------------------------------------------------
(* Properties of calculate_style_metrics, under SpecStyle. *)

AllUnique(ts) == \A i, j \in 1..Len(ts) : i # j => ts[i] # ts[j]

StyleRanges ==
    /\ style_metrics.type_token_ratio \in 0..10000
    /\ style_metrics.hapax_ratio \in 0..10000
    /\ style_metrics.vocabulary_size <= style_metrics.total_tokens
    /\ style_metrics.hapax_legomena <= style_metrics.vocabulary_size
    /\ tokens = <<"a", "a", "b">> =>
           /\ style_metrics.vocabulary_size = 2
           /\ style_metrics.type_token_ratio = 6667
           /\ style_metrics.hapax_legomena = 1
           /\ style_metrics.hapax_ratio = 5000

\* C6, as stated: the type-token ratio and the hapax ratio lie in [0, 1],
\* vocabulary_size <= total_tokens, hapax_legomena <= vocabulary_size, both
\* ratios are 1 whenever every token of the sequence is unique, and
\* ['a','a','b'] gives vocabulary 2, hapax 1, hapax ratio 0.5.
C6_RatiosOneWhenAllUnique ==
    pc = "measured" =>
        /\ StyleRanges
        /\ AllUnique(tokens) =>
               /\ style_metrics.type_token_ratio = 10000
               /\ style_metrics.hapax_ratio = 10000

\* C6, amended: the same, the two ratios being 1 whenever the sequence is
\* not empty and every token of it is unique.
C6_RatiosOneWhenNonEmptyAllUnique ==
    pc = "measured" =>
        /\ StyleRanges
        /\ (tokens # <<>> /\ AllUnique(tokens)) =>
               /\ style_metrics.type_token_ratio = 10000
               /\ style_metrics.hapax_ratio = 10000

\* Several tokens, all different, have been measured.
C6_Witness ==
    /\ pc = "measured"
    /\ Len(tokens) >= 3
    /\ AllUnique(tokens)
    /\ style_metrics.vocabulary_size = Len(tokens)

\* Sum of the squared occurrence counts over the word types.
RECURSIVE SumOfSquares(_, _)
SumOfSquares(S, ts) ==
    IF S = {} THEN 0
    ELSE LET w == CHOOSE x \in S : TRUE
         IN  Occurrences(w, ts) * Occurrences(w, ts) + SumOfSquares(S \ {w}, ts)

\* C7: for a non-empty sequence M1 is the number of tokens, M2 the sum of
\* the squared occurrence counts over the word types, and Yule's K is
\* 10000 * (M2 - M1) / M1^2, returned rounded to 4 decimals; so M2 >= M1,
\* K >= 0, and K = 0 exactly when every token is unique.  With no token it
\* is 0.
C7_YulesK ==
    pc = "measured" =>
        LET n == Len(tokens)
            squares == SumOfSquares(unique_tokens(tokens), tokens)
            k == yules_k(tokens)
        IN  /\ tokens # <<>> =>
                   /\ m1(tokens) = n
                   /\ m2(tokens) = squares
                   /\ m2(tokens) >= m1(tokens)
                   /\ k = <<10000 * (squares - n), n * n>>
                   /\ k[1] >= 0
                   /\ k[1] = 0 <=> AllUnique(tokens)
                   /\ style_metrics.yules_k = Round4(10000 * (squares - n), n * n)
                   /\ style_metrics.yules_k >= 0
            /\ tokens = <<>> => style_metrics.yules_k = 0

\* A sequence with a repeated token has been measured: K is positive.
C7_Witness ==
    /\ pc = "measured"
    /\ Len(tokens) >= 3
    /\ ~AllUnique(tokens)
    /\ style_metrics.yules_k > 0

-----------------------------------------------------------------------------
(* Properties of calculate_sentiment, under SpecSentiment. *)

\* C8: with at least one sentence, the distribution counts the sentences of
\* compound > 0.05 as positive, those of compound < -0.05 as negative and
\* all others, those of compound exactly 0.05 or -0.05 among them, as
\* neutral; the three counts add up to sentence_count.
C8_ThresholdClasses ==
    (pc = "scored" /\ sentence_scores # <<>>) =>
        LET all == 1..Len(sentence_scores)
            d == sentiment.distribution
        IN  /\ d.positive =
                   Cardinality({i \in all : sentence_scores[i].compound > 500})
            /\ d.negative =
                   Cardinality({i \in all : sentence_scores[i].compound < -500})
            /\ d.neutral =
                   Cardinality({i \in all :
                       /\ sentence_scores[i].compound >= -500
                       /\ sentence_scores[i].compound <= 500})
            /\ sentiment.sentence_count = Len(sentence_scores)
            /\ d.positive + d.negative + d.neutral = sentiment.sentence_count

\* Sentences on both thresholds and beyond one have been classified.
C8_Witness ==
    /\ pc = "scored"
    /\ \E i \in 1..Len(sentence_scores) : sentence_scores[i].compound = 500
    /\ \E i \in 1..Len(sentence_scores) : sentence_scores[i].compound = -500
    /\ \E i \in 1..Len(sentence_scores) : sentence_scores[i].compound = 501
    /\ sentiment.distribution.neutral = 2

-----------------------------------------------------------------------------
(* Properties of main, under SpecMain. *)

Ended == pc \in {"done", "returned", "failed"}

AllReadable == \A i \in 1..Len(txt_files) : txt_files[i].readable

HasTopicDistribution(r) == "topic_distribution" \in DOMAIN r

\* The topic model is called only on the clean texts of all documents, and
\* no record holds a topic_distribution before the call has returned.
Barrier ==
    /\ tm_calls >= 1 =>
           /\ Len(corpus_texts) = Len(txt_files)
           /\ \A i \in 1..Len(txt_files) : corpus_texts[i] = txt_files[i].terms
    /\ \A i \in 1..Len(results) :
           HasTopicDistribution(results[i]) =>
               /\ tm_calls = 1
               /\ pc \in {"merge", "write", "done"}

\* C9, as stated: in every run of main perform_topic_modeling is invoked
\* exactly once, only after every document's clean text is in corpus_texts,
\* and no record holds a topic_distribution before that call has returned.
C9_BarrierExactlyOnceEveryRun ==
    /\ Barrier
    /\ tm_calls <= 1
    /\ Ended => tm_calls = 1

\* C9, amended: in every run perform_topic_modeling is invoked at most once,
\* only after every document's clean text is in corpus_texts, and no record
\* holds a topic_distribution before that call has returned; it is invoked
\* exactly once in every run that finds a text file and analyzes every
\* document without an error.
C9_BarrierOnceWhenReached ==
    /\ Barrier
    /\ tm_calls <= 1
    /\ (Ended /\ txt_files # <<>> /\ AllReadable) => tm_calls = 1

\* A run over several documents that came to its end with every record
\* holding its topic_distribution.
C9_Witness ==
    /\ pc = "done"
    /\ Len(txt_files) >= 3
    /\ tm_calls = 1
    /\ \A i \in 1..Len(results) : HasTopicDistribution(results[i])

\* C10: analysis_results.json is written only at the end of a run in which
\* every document was analyzed, the topic model was fitted and every record
\* got its topic_distribution; a run in which a document cannot be analyzed
\* or the vectorizer rejects the corpus ends in the error and writes nothing.
C10_NoOutputOfFailedRun ==
    /\ output_file # <<>> =>
           /\ pc = "done"
           /\ Len(output_file) = 1
           /\ AllReadable
           /\ Len(results) = Len(txt_files)
           /\ Len(corpus_texts) = Len(txt_files)
           /\ ~VectorizerRejects(corpus_texts)
           /\ tm_calls = 1
           /\ \A i \in 1..Len(results) : HasTopicDistribution(results[i])
           /\ output_file[1].texts = results
    /\ pc = "failed" => output_file = <<>>
    /\ ( /\ Ended
         /\ txt_files # <<>>
         /\ \/ ~AllReadable
            \/ VectorizerRejects([i \in 1..Len(txt_files) |-> txt_files[i].terms]) )
           => (pc = "failed" /\ output_file = <<>>)
    /\ pc = "done" => output_file # <<>>

\* Every document was analyzed, then the vectorizer rejected the corpus.
C10_Witness ==
    /\ pc = "failed"
    /\ tm_calls = 1
    /\ Len(results) >= 3
    /\ output_file = <<>>

=============================================================================
